---- MODULE Spec2Model ----
(***************************************************************************)
(* A model of the treap of mbudde/treap-rs: Node (src/src/node.rs) with its *)
(* recursive insert / remove / rotate_down and the two rotations, and       *)
(* TreapMap (src/src/map.rs) with its size counter and its four iterators.  *)
(*                                                                         *)
(* An Option<T> is a sequence of length 0 (None) or 1 (Some(x)); a          *)
(* Box<Node> is the node record itself, so an owned subtree is a value.     *)
(* A function that takes &mut self and returns r is an operator that        *)
(* returns [t |-> self afterwards, r |-> r].  Priorities are f64 samples of *)
(* a random source; only < and >= are ever applied to them, so they are     *)
(* integers here.                                                           *)
(*                                                                         *)
(* Every public call is one action.  call, ret, old_root and old_size keep  *)
(* the call that has just returned, its result and the map at its entry,    *)
(* until the caller goes on (Settle); a borrowed iterator keeps the map      *)
(* from being changed until it is dropped (IterDrop).                       *)
(***************************************************************************)
EXTENDS Integers, Sequences, FiniteSets, TLC

\* ---------------------------------------------------------------- bounds
MaxKey == 3        \* keys are 1..MaxKey
MaxPri == 2        \* sampled priorities are 1..MaxPri
MaxVal == 2        \* values are 1..MaxVal
MaxFreshPri == 3   \* sampled priorities of SpecFresh are 1..MaxFreshPri

Keys == 1..MaxKey
MaxRotKey == 5      \* keys of the maps on which the rotations are looked at
RotKeys == 1..MaxRotKey
Priorities == 1..MaxPri
Values == 1..MaxVal
FreshPriorities == 1..MaxFreshPri

\* ---------------------------------------------------------------- Option
None == <<>>
Some(x) == <<x>>

\* ------------------------------------------------------------ node.rs
\* Node::new
NewNode(key, value, priority) ==
    [key |-> key, value |-> value, priority |-> priority,
     left |-> None, right |-> None]

\* Node::get, as TreapMap::get enters it: on an Option<Box<Node>>
RECURSIVE get(_, _)
get(subtree, key) ==
    IF subtree = None THEN None
    ELSE LET n == subtree[1] IN
         IF key = n.key THEN Some(n.value)
         ELSE IF key < n.key THEN get(n.left, key)
         ELSE get(n.right, key)

\* Node::get_mut, as TreapMap::get_mut enters it; the &mut V is the value
RECURSIVE get_mut(_, _)
get_mut(subtree, key) ==
    IF subtree = None THEN None
    ELSE LET n == subtree[1] IN
         IF key = n.key THEN Some(n.value)
         ELSE IF key < n.key THEN get_mut(n.left, key)
         ELSE get_mut(n.right, key)

\* is_heap_property_violated with <= for <: a child of equal priority counts
\* as outranking its parent
is_heap_property_violated_or_equal(self, subtree) ==
    IF subtree = None THEN FALSE
    ELSE self.priority <= subtree[1].priority

\* is_heap_property_violated with the test dropped: the child is never found
\* to outrank its parent, so insert never rotates
is_heap_property_violated_never(self, subtree) == FALSE

\* Node::is_heap_property_violated
is_heap_property_violated(self, subtree) ==
    IF subtree = None THEN FALSE
    ELSE self.priority < subtree[1].priority

\* right_rotate with the second swap on the wrong field of p
\* (mem::swap(&mut self.left, &mut node.left)): A ends up under q, B is lost
right_rotate_wrong_swap(self) ==
    LET left == self.left
        q0   == [self EXCEPT !.left = None]
    IN IF left = None THEN q0
       ELSE LET p1 == left[1]
                p2 == [p1 EXCEPT !.left = q0.left]
                q2 == [q0 EXCEPT !.left = p1.left]
            IN [p2 EXCEPT !.right = Some(q2)]

\*       q               p
\*      / \             / \
\*     p  C   --->     A  q
\*    / \                / \
\*   A  B               B  C
right_rotate(self) ==
    LET left == self.left                          \* mem::replace(&mut self.left, None)
        q0   == [self EXCEPT !.left = None]
    IN IF left = None THEN q0
       ELSE LET p1 == left[1]                      \* mem::swap(self, node): self is p, node is q
                q1 == q0
                p2 == [p1 EXCEPT !.right = q1.left]   \* mem::swap(self.right, node.left)
                q2 == [q1 EXCEPT !.left = p1.right]
            IN [p2 EXCEPT !.right = Some(q2)]      \* self.right = Some(node)

\* left_rotate whose swap of the two nodes leaves the priority fields where
\* they were: q comes up with the priority of p, p goes down with that of q
left_rotate_keeps_priority(self) ==
    LET right == self.right
        p0    == [self EXCEPT !.right = None]
    IN IF right = None THEN p0
       ELSE LET q1 == [right[1] EXCEPT !.priority = p0.priority]
                p1 == [p0 EXCEPT !.priority = right[1].priority]
                q2 == [q1 EXCEPT !.left = p1.right]
                p2 == [p1 EXCEPT !.right = q1.left]
            IN [q2 EXCEPT !.left = Some(p2)]

\* left_rotate with the second swap on the wrong field of q
\* (mem::swap(&mut self.right, &mut node.right)): C ends up under p, B is lost
left_rotate_wrong_swap(self) ==
    LET right == self.right
        p0    == [self EXCEPT !.right = None]
    IN IF right = None THEN p0
       ELSE LET q1 == right[1]
                q2 == [q1 EXCEPT !.right = p0.right]
                p2 == [p0 EXCEPT !.right = q1.right]
            IN [q2 EXCEPT !.left = Some(p2)]

\*     p               q
\*    / \             / \
\*   A  q   --->     p  C
\*     / \          / \
\*    B  C         A  B
left_rotate(self) ==
    LET right == self.right
        p0    == [self EXCEPT !.right = None]
    IN IF right = None THEN p0
       ELSE LET q1 == right[1]
                p1 == p0
                q2 == [q1 EXCEPT !.left = p1.right]
                p2 == [p1 EXCEPT !.right = q1.left]
            IN [q2 EXCEPT !.left = Some(p2)]

\* Node::insert (on a node) and Node::insert_or_replace (on a slot).
\* Each returns [t |-> the node / slot afterwards, r |-> the Option<V> returned].
RECURSIVE insert(_, _)
RECURSIVE insert_or_replace(_, _)

\* Node::insert whose Equal arm returns the old value but forgets to store
\* the new one
insert_keep_value(self, node) ==
    IF node.key = self.key THEN
        LET s1 == IF self.priority < node.priority
                  THEN [self EXCEPT !.priority = node.priority]
                  ELSE self
        IN [t |-> s1, r |-> Some(self.value)]
    ELSE IF node.key < self.key THEN
        LET sub == insert_or_replace(self.left, node)
            s1  == [self EXCEPT !.left = sub.t]
        IN [t |-> IF is_heap_property_violated(s1, s1.left)
                  THEN right_rotate(s1) ELSE s1,
            r |-> sub.r]
    ELSE
        LET sub == insert_or_replace(self.right, node)
            s1  == [self EXCEPT !.right = sub.t]
        IN [t |-> IF is_heap_property_violated(s1, s1.right)
                  THEN left_rotate(s1) ELSE s1,
            r |-> sub.r]

\* Node::insert whose Equal arm replaces the value and leaves the priority
\* alone (the Equal arm of src/src/lib.rs)
insert_no_raise(self, node) ==
    IF node.key = self.key THEN
        [t |-> [self EXCEPT !.value = node.value], r |-> Some(self.value)]
    ELSE IF node.key < self.key THEN
        LET sub == insert_or_replace(self.left, node)
            s1  == [self EXCEPT !.left = sub.t]
        IN [t |-> IF is_heap_property_violated(s1, s1.left)
                  THEN right_rotate(s1) ELSE s1,
            r |-> sub.r]
    ELSE
        LET sub == insert_or_replace(self.right, node)
            s1  == [self EXCEPT !.right = sub.t]
        IN [t |-> IF is_heap_property_violated(s1, s1.right)
                  THEN left_rotate(s1) ELSE s1,
            r |-> sub.r]

insert(self, node) ==
    IF node.key = self.key THEN
        LET s1 == IF self.priority < node.priority
                  THEN [self EXCEPT !.priority = node.priority]
                  ELSE self
        IN [t |-> [s1 EXCEPT !.value = node.value], r |-> Some(self.value)]
    ELSE IF node.key < self.key THEN
        LET sub == insert_or_replace(self.left, node)
            s1  == [self EXCEPT !.left = sub.t]
        IN [t |-> IF is_heap_property_violated(s1, s1.left)
                  THEN right_rotate(s1) ELSE s1,
            r |-> sub.r]
    ELSE
        LET sub == insert_or_replace(self.right, node)
            s1  == [self EXCEPT !.right = sub.t]
        IN [t |-> IF is_heap_property_violated(s1, s1.right)
                  THEN left_rotate(s1) ELSE s1,
            r |-> sub.r]

insert_or_replace(subtree, new) ==
    IF subtree = None THEN [t |-> Some(new), r |-> None]
    ELSE LET res == insert(subtree[1], new)
         IN [t |-> Some(res.t), r |-> res.r]

\* the case selection with the tie going to the right child: left.priority >
\* right.priority for >=
RemovalCase_tie_left(root) ==
    IF root.left = None /\ root.right = None THEN "RemoveNode"
    ELSE IF root.left # None /\ root.right # None THEN
        IF root.left[1].priority > root.right[1].priority
        THEN "RotateRight" ELSE "RotateLeft"
    ELSE IF root.left # None THEN "RotateRight"
    ELSE "RotateLeft"

\* the case selection with the comparison turned round: of two children the
\* one of lower priority is brought up
RemovalCase_lower_child(root) ==
    IF root.left = None /\ root.right = None THEN "RemoveNode"
    ELSE IF root.left # None /\ root.right # None THEN
        IF root.left[1].priority >= root.right[1].priority
        THEN "RotateLeft" ELSE "RotateRight"
    ELSE IF root.left # None THEN "RotateRight"
    ELSE "RotateLeft"

\* the case selection that takes a node with one child for a childless one:
\* (&Some(_), &None) and (&None, &Some(_)) map to RemoveNode
RemovalCase_detach_early(root) ==
    IF root.left = None \/ root.right = None THEN "RemoveNode"
    ELSE IF root.left[1].priority >= root.right[1].priority
         THEN "RotateRight" ELSE "RotateLeft"

\* the case selection of Node::rotate_down (enum RemovalCases)
RemovalCase(root) ==
    IF root.left = None /\ root.right = None THEN "RemoveNode"
    ELSE IF root.left # None /\ root.right # None THEN
        IF root.left[1].priority >= root.right[1].priority
        THEN "RotateRight" ELSE "RotateLeft"
    ELSE IF root.left # None THEN "RotateRight"
    ELSE "RotateLeft"

\* Node::rotate_down, on a slot
RECURSIVE rotate_down(_)

\* Node::rotate_down that, after a rotation, goes on in the child slot the
\* target did not move to
rotate_down_wrong_side(subtree) ==
    IF subtree = None THEN [t |-> None, r |-> None]
    ELSE LET root == subtree[1]
             case == RemovalCase(root)
         IN IF case = "RemoveNode" THEN
                [t |-> None, r |-> Some(root.value)]
            ELSE IF case = "RotateLeft" THEN
                LET n == left_rotate(root)
                    d == rotate_down(n.right)
                IN [t |-> Some([n EXCEPT !.right = d.t]), r |-> d.r]
            ELSE
                LET n == right_rotate(root)
                    d == rotate_down(n.left)
                IN [t |-> Some([n EXCEPT !.left = d.t]), r |-> d.r]

rotate_down(subtree) ==
    IF subtree = None THEN [t |-> None, r |-> None]
    ELSE LET root == subtree[1]
             case == RemovalCase(root)
         IN IF case = "RemoveNode" THEN
                [t |-> None, r |-> Some(root.value)]       \* subtree.take().map(|n| n.value)
            ELSE IF case = "RotateLeft" THEN
                LET n == left_rotate(root)
                    d == rotate_down(n.left)
                IN [t |-> Some([n EXCEPT !.left = d.t]), r |-> d.r]
            ELSE
                LET n == right_rotate(root)
                    d == rotate_down(n.right)
                IN [t |-> Some([n EXCEPT !.right = d.t]), r |-> d.r]

\* Node::remove, on a slot
RECURSIVE remove(_, _)

\* Node::remove that, when the descent would enter an absent slot, takes the
\* node it stands on for the one to remove
remove_nearest(subtree, key) ==
    IF subtree = None THEN [t |-> None, r |-> None]
    ELSE LET node == subtree[1] IN
         IF key < node.key /\ node.left # None THEN
            LET d == remove(node.left, key)
            IN [t |-> Some([node EXCEPT !.left = d.t]), r |-> d.r]
         ELSE IF key > node.key /\ node.right # None THEN
            LET d == remove(node.right, key)
            IN [t |-> Some([node EXCEPT !.right = d.t]), r |-> d.r]
         ELSE rotate_down(subtree)

remove(subtree, key) ==
    IF subtree = None THEN [t |-> None, r |-> None]
    ELSE LET node == subtree[1] IN
         IF key < node.key THEN
            LET d == remove(node.left, key)
            IN [t |-> Some([node EXCEPT !.left = d.t]), r |-> d.r]
         ELSE IF key > node.key THEN
            LET d == remove(node.right, key)
            IN [t |-> Some([node EXCEPT !.right = d.t]), r |-> d.r]
         ELSE rotate_down(subtree)

\* ------------------------------------------------------------- map.rs
\* the size update of insert without its test: every insert counts
SizeAfterInsert_always(sz, res) == sz + 1

\* the size update of TreapMap::insert: if res.is_none() { self.size += 1; }
SizeAfterInsert(sz, res) == IF res = None THEN sz + 1 ELSE sz

\* the size update of remove without its test: every remove counts down
SizeAfterRemove_always(sz, res) == IF sz > 0 THEN sz - 1 ELSE 0

\* the size update of TreapMap::remove: if res.is_some() { self.size -= 1; }
SizeAfterRemove(sz, res) == IF res # None THEN sz - 1 ELSE sz

\* Iter::next with `else if` for the right child: a node with two children
\* pushes only the left one
IterNext_skip_right(nodes) ==
    IF nodes = <<>> THEN [nodes |-> nodes, r |-> None]
    ELSE LET node == nodes[Len(nodes)]
             n0   == SubSeq(nodes, 1, Len(nodes) - 1)
             n1   == IF node.left # None THEN Append(n0, node.left[1])
                     ELSE IF node.right # None THEN Append(n0, node.right[1])
                     ELSE n0
         IN [nodes |-> n1, r |-> Some(<<node.key, node.value>>)]

\* Iter::next that looks at the last node (nodes.last()) without popping it
IterNext_no_pop(nodes) ==
    IF nodes = <<>> THEN [nodes |-> nodes, r |-> None]
    ELSE LET node == nodes[Len(nodes)]
             n1   == IF node.left # None THEN Append(nodes, node.left[1]) ELSE nodes
             n2   == IF node.right # None THEN Append(n1, node.right[1]) ELSE n1
         IN [nodes |-> n2, r |-> Some(<<node.key, node.value>>)]

\* Iter::next, IterMut::next, IntoIter::next: pop a node, push its left
\* child, then its right child; [nodes |-> the work-list, r |-> the item]
IterNext(nodes) ==
    IF nodes = <<>> THEN [nodes |-> nodes, r |-> None]
    ELSE LET node == nodes[Len(nodes)]
             n0   == SubSeq(nodes, 1, Len(nodes) - 1)
             n1   == IF node.left # None THEN Append(n0, node.left[1]) ELSE n0
             n2   == IF node.right # None THEN Append(n1, node.right[1]) ELSE n1
         IN [nodes |-> n2, r |-> Some(<<node.key, node.value>>)]

\* enum Traversal
Left(node) == [tag |-> "Left", node |-> node]
Right(node) == [tag |-> "Right", node |-> node]

\* OrderedIter::next: the loop runs until a Right item is popped or the
\* stack is empty
RECURSIVE OrderedNext(_)

\* OrderedIter::next that pushes Left(left child) before Right(node): the
\* node is processed before its left subtree
OrderedNext_node_first(nodes) ==
    IF nodes = <<>> THEN [nodes |-> nodes, r |-> None]
    ELSE LET top  == nodes[Len(nodes)]
             n0   == SubSeq(nodes, 1, Len(nodes) - 1)
             node == top.node
         IN IF top.tag = "Left" THEN
                LET n1 == IF node.left # None
                          THEN Append(n0, Left(node.left[1])) ELSE n0
                    n2 == Append(n1, Right(node))
                IN OrderedNext(n2)
            ELSE
                [nodes |-> IF node.right # None
                           THEN Append(n0, Left(node.right[1])) ELSE n0,
                 r |-> Some(<<node.key, node.value>>)]

OrderedNext(nodes) ==
    IF nodes = <<>> THEN [nodes |-> nodes, r |-> None]
    ELSE LET top  == nodes[Len(nodes)]
             n0   == SubSeq(nodes, 1, Len(nodes) - 1)
             node == top.node
         IN IF top.tag = "Left" THEN
                LET n1 == Append(n0, Right(node))
                    n2 == IF node.left # None
                          THEN Append(n1, Left(node.left[1])) ELSE n1
                IN OrderedNext(n2)
            ELSE
                [nodes |-> IF node.right # None
                           THEN Append(n0, Left(node.right[1])) ELSE n0,
                 r |-> Some(<<node.key, node.value>>)]

\* the message of the panic of Index::index and IndexMut::index_mut
NoEntry == "no entry found for key"

\* index that falls back on the value at the root when the key is absent
\* (get(key).or(get(root key))) instead of failing
index_or_root(subtree, key) ==
    LET found == get(subtree, key) IN
    IF found = None /\ subtree # None
    THEN [r |-> Some(subtree[1].value), panic |-> ""]
    ELSE [r |-> found, panic |-> IF found = None THEN NoEntry ELSE ""]

\* Index::index: self.get(key).expect("no entry found for key");
\* [r |-> the value referred to, panic |-> the message of the panic or ""]
index(subtree, key) ==
    LET found == get(subtree, key) IN
    [r |-> found, panic |-> IF found = None THEN NoEntry ELSE ""]

\* IndexMut::index_mut: self.get_mut(key).expect("no entry found for key")
index_mut(subtree, key) ==
    LET found == get_mut(subtree, key) IN
    [r |-> found, panic |-> IF found = None THEN NoEntry ELSE ""]

\* ---------------------------------------------------------------- state
VARIABLES
    root,       \* TreapMap.root : Option<Box<Node>>
    size,       \* TreapMap.size
    call,       \* the call that has just returned: [op, key, value, priority]
    ret,        \* what that call returned
    old_root,   \* root when that call was entered
    old_size,   \* size when that call was entered
    it_kind,    \* the live iterator: "none", "iter", "iter_mut", "into_iter", "ordered"
    it_nodes,   \* its work-list (field nodes)
    it_out,     \* the items it has yielded so far
    it_src,     \* the root it was built from
    panicked,   \* the message of the panic that ended the last call ("": none)
    members,    \* the keys inserted and not removed since (history)
    pc,         \* where a call run step by step stands ("idle": no such call)
    path,       \* the slot that call works on: the turns from the root, "L" / "R"
    step_root,  \* root before the last step of that call
    step        \* what the last step of that call did ("none": no step yet)

vars == <<root, size, call, ret, old_root, old_size,
          it_kind, it_nodes, it_out, it_src,
          panicked, members, pc, path, step_root, step>>

Call(op, k, v, p) == [op |-> op, key |-> k, value |-> v, priority |-> p]

\* no call is being looked at: the caller is between two calls
NoCall == Call("none", 0, 0, 0)

itVars == <<it_kind, it_nodes, it_out, it_src>>

stepVars == <<pc, path, step_root, step>>

\* TreapMap::new
Init ==
    /\ root = None
    /\ size = 0
    /\ call = Call("new", 0, 0, 0)
    /\ ret = None
    /\ old_root = None
    /\ old_size = 0
    /\ it_kind = "none"
    /\ it_nodes = <<>>
    /\ it_out = <<>>
    /\ it_src = None
    /\ panicked = ""
    /\ members = {}
    /\ pc = "idle"
    /\ path = <<>>
    /\ step_root = None
    /\ step = "none"

\* The caller has taken the result of the last call: what is remembered of
\* that call is dropped, the map is as the call left it.
Settle ==
    /\ call # NoCall
    /\ it_kind = "none"
    /\ pc = "idle"
    /\ panicked = ""
    /\ call' = NoCall
    /\ ret' = None
    /\ old_root' = root
    /\ old_size' = size
    /\ pc' = "idle"
    /\ path' = <<>>
    /\ step_root' = None
    /\ step' = "none"
    /\ UNCHANGED <<root, size, members, panicked>>
    /\ UNCHANGED itVars

\* TreapMap::insert; the priority of the new node is a fresh random sample
Insert(k, v, p) ==
    /\ call = NoCall
    /\ it_kind = "none"
    /\ LET res == insert_or_replace(root, NewNode(k, v, p)) IN
        /\ root' = res.t
        /\ size' = SizeAfterInsert(size, res.r)
        /\ ret' = res.r
    /\ call' = Call("insert", k, v, p)
    /\ old_root' = root
    /\ old_size' = size
    /\ members' = members \cup {k}
    /\ UNCHANGED panicked
    /\ UNCHANGED itVars
    /\ UNCHANGED stepVars

\* TreapMap::remove
Remove(k) ==
    /\ call = NoCall
    /\ it_kind = "none"
    /\ LET res == remove(root, k) IN
        /\ root' = res.t
        /\ size' = SizeAfterRemove(size, res.r)
        /\ ret' = res.r
    /\ call' = Call("remove", k, 0, 0)
    /\ old_root' = root
    /\ old_size' = size
    /\ members' = members \ {k}
    /\ UNCHANGED panicked
    /\ UNCHANGED itVars
    /\ UNCHANGED stepVars

\* clear that drops the tree and forgets self.size = 0
Clear_keeps_size ==
    /\ call = NoCall
    /\ it_kind = "none"
    /\ root' = None
    /\ ret' = None
    /\ call' = Call("clear", 0, 0, 0)
    /\ old_root' = root
    /\ old_size' = size
    /\ members' = {}
    /\ UNCHANGED <<size, panicked>>
    /\ UNCHANGED itVars
    /\ UNCHANGED stepVars

\* TreapMap::len and TreapMap::is_empty of a map whose size field is sz
len(sz) == sz
is_empty(sz) == sz = 0

\* TreapMap::clear
Clear ==
    /\ call = NoCall
    /\ it_kind = "none"
    /\ root' = None
    /\ size' = 0
    /\ ret' = None
    /\ call' = Call("clear", 0, 0, 0)
    /\ old_root' = root
    /\ old_size' = size
    /\ members' = {}
    /\ UNCHANGED panicked
    /\ UNCHANGED itVars
    /\ UNCHANGED stepVars

\* TreapMap::get
Get(k) ==
    /\ call = NoCall
    /\ it_kind = "none"
    /\ ret' = get(root, k)
    /\ call' = Call("get", k, 0, 0)
    /\ old_root' = root
    /\ old_size' = size
    /\ UNCHANGED <<root, size, members, panicked>>
    /\ UNCHANGED itVars
    /\ UNCHANGED stepVars

\* map[&k]: Index::index. It takes &self: nothing of the map is written.
\* A panic ends the program: no call follows it.
Index(k) ==
    /\ call = NoCall
    /\ it_kind = "none"
    /\ LET res == index(root, k) IN
        /\ ret' = res.r
        /\ panicked' = res.panic
    /\ call' = Call("index", k, 0, 0)
    /\ old_root' = root
    /\ old_size' = size
    /\ UNCHANGED <<root, size, members>>
    /\ UNCHANGED itVars
    /\ UNCHANGED stepVars

\* &mut map[&k]: IndexMut::index_mut. get_mut writes nothing; the panic
\* comes before the caller could write through the reference.
IndexMut(k) ==
    /\ call = NoCall
    /\ it_kind = "none"
    /\ LET res == index_mut(root, k) IN
        /\ ret' = res.r
        /\ panicked' = res.panic
    /\ call' = Call("index_mut", k, 0, 0)
    /\ old_root' = root
    /\ old_size' = size
    /\ UNCHANGED <<root, size, members>>
    /\ UNCHANGED itVars
    /\ UNCHANGED stepVars

\* the number of times the body of the loop of OrderedIter::next runs in
\* one call that starts with the stack `nodes` (the pop that finds the
\* stack empty is counted)
RECURSIVE OrderedLoopRuns(_)
OrderedLoopRuns(nodes) ==
    IF nodes = <<>> THEN 1
    ELSE LET top  == nodes[Len(nodes)]
             n0   == SubSeq(nodes, 1, Len(nodes) - 1)
             node == top.node
         IN IF top.tag = "Left" THEN
                LET n1 == Append(n0, Right(node))
                    n2 == IF node.left # None
                          THEN Append(n1, Left(node.left[1])) ELSE n1
                IN 1 + OrderedLoopRuns(n2)
            ELSE 1

\* the seed of the work-list of Iter, IterMut and IntoIter: the root node, if any
SeedNodes(r) == IF r = None THEN <<>> ELSE <<r[1]>>

\* the seed of the stack of TreapMap::iter_ordered
SeedOrdered(r) == IF r = None THEN <<>> ELSE <<Left(r[1])>>

\* an iter() that takes the root out of the map as into_iter(self) does
IterStart_takes_root(kind) ==
    /\ call = NoCall
    /\ it_kind = "none"
    /\ it_kind' = kind
    /\ it_nodes' = IF kind = "ordered" THEN SeedOrdered(root) ELSE SeedNodes(root)
    /\ it_out' = <<>>
    /\ it_src' = root
    /\ call' = Call(kind, 0, 0, 0)
    /\ ret' = None
    /\ old_root' = root
    /\ old_size' = size
    /\ root' = None
    /\ UNCHANGED <<size, members, panicked>>
    /\ UNCHANGED stepVars

\* (&map).into_iter(), (&mut map).into_iter(), map.iter_ordered(): the
\* iterator borrows the map, which no call can change while it is alive
IterStart(kind) ==
    /\ call = NoCall
    /\ it_kind = "none"
    /\ it_kind' = kind
    /\ it_nodes' = IF kind = "ordered" THEN SeedOrdered(root) ELSE SeedNodes(root)
    /\ it_out' = <<>>
    /\ it_src' = root
    /\ call' = Call(kind, 0, 0, 0)
    /\ ret' = None
    /\ old_root' = root
    /\ old_size' = size
    /\ UNCHANGED <<root, size, members, panicked>>
    /\ UNCHANGED stepVars

\* map.into_iter(): the map is moved into the iterator; the program goes
\* on with a fresh TreapMap::new()
IntoIterStart ==
    /\ call = NoCall
    /\ it_kind = "none"
    /\ it_kind' = "into_iter"
    /\ it_nodes' = SeedNodes(root)
    /\ it_out' = <<>>
    /\ it_src' = root
    /\ call' = Call("into_iter", 0, 0, 0)
    /\ ret' = None
    /\ old_root' = root
    /\ old_size' = size
    /\ root' = None
    /\ size' = 0
    /\ members' = {}
    /\ UNCHANGED panicked
    /\ UNCHANGED stepVars

\* Iter::next, IterMut::next and IntoIter::next
UnorderedNext ==
    /\ it_kind \in {"iter", "iter_mut", "into_iter"}
    /\ LET res == IterNext(it_nodes) IN
        /\ it_nodes' = res.nodes
        /\ ret' = res.r
        /\ it_out' = IF res.r = None THEN it_out ELSE Append(it_out, res.r[1])
    /\ call' = Call("next", 0, 0, 0)
    /\ UNCHANGED <<root, size, old_root, old_size, it_kind, it_src>>
    /\ UNCHANGED <<members, panicked>>
    /\ UNCHANGED stepVars

\* OrderedIter::next
OrderedIterNext ==
    /\ it_kind = "ordered"
    /\ LET res == OrderedNext(it_nodes) IN
        /\ it_nodes' = res.nodes
        /\ ret' = res.r
        /\ it_out' = IF res.r = None THEN it_out ELSE Append(it_out, res.r[1])
    /\ call' = Call("next", 0, 0, 0)
    /\ UNCHANGED <<root, size, old_root, old_size, it_kind, it_src>>
    /\ UNCHANGED <<members, panicked>>
    /\ UNCHANGED stepVars

\* the iterator is dropped, exhausted or not
IterDrop ==
    /\ it_kind # "none"
    /\ it_kind' = "none"
    /\ it_nodes' = <<>>
    /\ it_out' = <<>>
    /\ it_src' = None
    /\ call' = NoCall
    /\ ret' = None
    /\ old_root' = root
    /\ old_size' = size
    /\ UNCHANGED <<root, size, members, panicked>>
    /\ UNCHANGED stepVars

Next ==
    \/ Settle
    \/ \E k \in Keys, v \in Values, p \in Priorities : Insert(k, v, p)
    \/ \E k \in Keys : Remove(k)
    \/ Clear
    \/ \E k \in Keys : Get(k)
    \/ \E kind \in {"iter", "iter_mut", "ordered"} : IterStart(kind)
    \/ IntoIterStart
    \/ UnorderedNext
    \/ OrderedIterNext
    \/ IterDrop

Spec == Init /\ [][Next]_vars

\* A program that builds maps by insert and walks them with the four
\* iterators; next() may be called again after it has returned None.
NextIter ==
    \/ Settle
    \/ \E k \in Keys, v \in Values, p \in Priorities : Insert(k, v, p)
    \/ \E kind \in {"iter", "iter_mut", "ordered"} : IterStart(kind)
    \/ IntoIterStart
    \/ UnorderedNext
    \/ OrderedIterNext
    \/ IterDrop

SpecIter == Init /\ [][NextIter]_vars

\* A map that is only ever built up: every call is an insert of a key that
\* is not in the map (a set of distinct keys, inserted in some order).
InsertFresh(k, v, p) ==
    /\ get(root, k) = None
    /\ Insert(k, v, p)

NextFresh ==
    \/ Settle
    \/ \E k \in Keys, v \in Values, p \in FreshPriorities : InsertFresh(k, v, p)

SpecFresh == Init /\ [][NextFresh]_vars

\* the priorities stored in the nodes reachable from a slot
RECURSIVE PrioritiesOf(_)
PrioritiesOf(t) ==
    IF t = None THEN {}
    ELSE {t[1].priority} \cup PrioritiesOf(t[1].left) \cup PrioritiesOf(t[1].right)

\* An insert of a key that is not in the map, with a sample that no node of
\* the map holds (as is the case when all samples are pairwise distinct).
InsertDistinct(k, v, p) ==
    /\ get(root, k) = None
    /\ p \notin PrioritiesOf(root)
    /\ Insert(k, v, p)

\* A map that is built up and taken down: inserts of absent keys with
\* distinct priorities, and removes, in any order.
NextHistory ==
    \/ Settle
    \/ \E k \in Keys, v \in Values, p \in FreshPriorities : InsertDistinct(k, v, p)
    \/ \E k \in Keys : Remove(k)

SpecHistory == Init /\ [][NextHistory]_vars

\* ------------------------------------------- insert and remove by steps
\* The recursion of Node::insert_or_replace / Node::insert and of
\* Node::remove / Node::rotate_down, one frame at a time. `path` names the
\* slot (&mut Option<Box<Node>>) the current frame was given.

\* the slot that the turns of p lead to from the slot t
RECURSIVE SubtreeAt(_, _)
SubtreeAt(t, p) ==
    IF p = <<>> \/ t = None THEN t
    ELSE SubtreeAt(IF Head(p) = "L" THEN t[1].left ELSE t[1].right, Tail(p))

\* t with the slot that p leads to holding new
RECURSIVE ReplaceAt(_, _, _)
ReplaceAt(t, p, new) ==
    IF p = <<>> THEN new
    ELSE IF Head(p) = "L"
         THEN Some([t[1] EXCEPT !.left = ReplaceAt(t[1].left, Tail(p), new)])
         ELSE Some([t[1] EXCEPT !.right = ReplaceAt(t[1].right, Tail(p), new)])

\* the return that stays in the frame it returns from
Front_same(p) == p

\* the path of the frame that called the frame at p
Front(p) == SubSeq(p, 1, Len(p) - 1)

\* TreapMap::insert up to its call of Node::insert_or_replace(&mut self.root,
\* Node::new(..)); the value is the key, as the benchmarks insert (i, i)
InsertBegin(k, p) ==
    /\ call = NoCall
    /\ it_kind = "none"
    /\ pc = "idle"
    /\ pc' = "insert_or_replace"
    /\ path' = <<>>
    /\ step_root' = root
    /\ step' = "begin"
    /\ call' = Call("insert", k, k, p)
    /\ ret' = None
    /\ old_root' = root
    /\ old_size' = size
    /\ members' = members \cup {k}
    /\ UNCHANGED <<root, size, panicked>>
    /\ UNCHANGED itVars

\* one frame of insert_or_replace and of the insert it enters, up to the
\* recursive call (Less, Greater) or to its return (None slot, Equal)
InsertDescend ==
    /\ pc = "insert_or_replace"
    /\ LET slot == SubtreeAt(root, path)
           node == NewNode(call.key, call.value, call.priority)
       IN IF slot = None THEN
              /\ root' = ReplaceAt(root, path, Some(node))
              /\ ret' = None
              /\ pc' = "return"
              /\ step' = "place"
              /\ path' = path
          ELSE IF node.key = slot[1].key THEN
              LET self == slot[1]
                  s1   == IF self.priority < node.priority
                          THEN [self EXCEPT !.priority = node.priority]
                          ELSE self
              IN /\ root' = ReplaceAt(root, path, Some([s1 EXCEPT !.value = node.value]))
                 /\ ret' = Some(self.value)
                 /\ pc' = "return"
                 /\ step' = "replace"
                 /\ path' = path
          ELSE
              /\ path' = Append(path, IF node.key < slot[1].key THEN "L" ELSE "R")
              /\ step' = "descend"
              /\ UNCHANGED <<root, ret, pc>>
    /\ step_root' = root
    /\ UNCHANGED <<size, call, old_root, old_size, members, panicked>>
    /\ UNCHANGED itVars

\* the return into the calling frame: a Node::insert that tests its child
\* slot and rotates, or TreapMap::insert that counts the new key
InsertReturn ==
    /\ pc = "return"
    /\ IF path = <<>> THEN
           /\ size' = SizeAfterInsert(size, ret)
           /\ pc' = "idle"
           /\ step' = "done"
           /\ UNCHANGED <<root, path>>
       ELSE
           LET self == SubtreeAt(root, Front(path))[1] IN
           /\ IF path[Len(path)] = "L" THEN
                  IF is_heap_property_violated(self, self.left)
                  THEN /\ root' = ReplaceAt(root, Front(path), Some(right_rotate(self)))
                       /\ step' = "right_rotate"
                  ELSE /\ root' = root
                       /\ step' = "no_rotate"
              ELSE
                  IF is_heap_property_violated(self, self.right)
                  THEN /\ root' = ReplaceAt(root, Front(path), Some(left_rotate(self)))
                       /\ step' = "left_rotate"
                  ELSE /\ root' = root
                       /\ step' = "no_rotate"
           /\ path' = Front(path)
           /\ UNCHANGED <<size, pc>>
    /\ step_root' = root
    /\ UNCHANGED <<call, ret, old_root, old_size, members, panicked>>
    /\ UNCHANGED itVars

\* TreapMap::remove up to its call of Node::remove(&mut self.root, key)
RemoveBegin(k) ==
    /\ call = NoCall
    /\ it_kind = "none"
    /\ pc = "idle"
    /\ pc' = "remove"
    /\ path' = <<>>
    /\ step_root' = root
    /\ step' = "begin"
    /\ call' = Call("remove", k, 0, 0)
    /\ ret' = None
    /\ old_root' = root
    /\ old_size' = size
    /\ members' = members \ {k}
    /\ UNCHANGED <<root, size, panicked>>
    /\ UNCHANGED itVars

\* one frame of Node::remove. The callers only pass the result on, so the
\* return of None runs through to TreapMap::remove in the same step.
RemoveDescend ==
    /\ pc = "remove"
    /\ LET slot == SubtreeAt(root, path) IN
       IF slot = None THEN
           /\ ret' = None
           /\ size' = SizeAfterRemove(size, None)
           /\ pc' = "idle"
           /\ step' = "done"
           /\ path' = path
       ELSE IF call.key = slot[1].key THEN
           /\ pc' = "rotate_down"
           /\ step' = "found"
           /\ UNCHANGED <<ret, size, path>>
       ELSE
           /\ path' = Append(path, IF call.key < slot[1].key THEN "L" ELSE "R")
           /\ step' = "descend"
           /\ UNCHANGED <<ret, size, pc>>
    /\ step_root' = root
    /\ UNCHANGED <<root, call, old_root, old_size, members, panicked>>
    /\ UNCHANGED itVars

\* one frame of Node::rotate_down: detach the node of the slot, or rotate
\* it and go on in the child slot it moved to
RotateDownStep ==
    /\ pc = "rotate_down"
    /\ LET slot == SubtreeAt(root, path) IN
       IF slot = None THEN
           /\ ret' = None
           /\ size' = SizeAfterRemove(size, None)
           /\ pc' = "idle"
           /\ step' = "done"
           /\ UNCHANGED <<root, path>>
       ELSE LET case == RemovalCase(slot[1]) IN
           IF case = "RemoveNode" THEN
               /\ root' = ReplaceAt(root, path, None)
               /\ ret' = Some(slot[1].value)
               /\ size' = SizeAfterRemove(size, Some(slot[1].value))
               /\ pc' = "idle"
               /\ step' = "detach"
               /\ path' = path
           ELSE IF case = "RotateLeft" THEN
               /\ root' = ReplaceAt(root, path, Some(left_rotate(slot[1])))
               /\ path' = Append(path, "L")
               /\ step' = "left_rotate"
               /\ UNCHANGED <<ret, size, pc>>
           ELSE
               /\ root' = ReplaceAt(root, path, Some(right_rotate(slot[1])))
               /\ path' = Append(path, "R")
               /\ step' = "right_rotate"
               /\ UNCHANGED <<ret, size, pc>>
    /\ step_root' = root
    /\ UNCHANGED <<call, old_root, old_size, members, panicked>>
    /\ UNCHANGED itVars

\* A program whose inserts and removes are looked at frame by frame.
NextSteps ==
    \/ Settle
    \/ \E k \in Keys, p \in Priorities : InsertBegin(k, p)
    \/ InsertDescend
    \/ InsertReturn
    \/ \E k \in Keys : RemoveBegin(k)
    \/ RemoveDescend
    \/ RotateDownStep

SpecSteps == Init /\ [][NextSteps]_vars

\* a frame of a call that has been entered runs on: the calls are plain
\* synchronous code, nothing in them waits or yields
RunOn ==
    \/ InsertDescend
    \/ InsertReturn
    \/ RemoveDescend
    \/ RotateDownStep

\* the same program, whose entered calls are not abandoned half way; when
\* the caller makes its next call is left open
SpecStepsFair == Init /\ [][NextSteps]_vars /\ WF_vars(RunOn)

\* A program that builds maps of up to MaxRotKey keys by insert(i, i), as the
\* benchmarks do, and removes from them frame by frame: the rotations of
\* rotate_down then meet nodes whose child and all three subtrees are present.
NextRotate ==
    \/ Settle
    \/ \E k \in RotKeys, p \in Priorities : Insert(k, k, p)
    \/ \E k \in RotKeys : RemoveBegin(k)
    \/ RemoveDescend
    \/ RotateDownStep

SpecRotate == Init /\ [][NextRotate]_vars

\* ------------------------------------------------------------- lib.rs
\* The crate root holds an older treap, struct Treap { root }, with its own
\* Node::insert; its rotations and is_heap_property_violated are, statement
\* for statement, those of node.rs and are shared with it here.
RECURSIVE lib_insert(_, _)
RECURSIVE lib_insert_or_replace(_, _)

\* lib.rs Node::insert: returns nothing; the value is the node afterwards.
\* Equal => self.value = node.value: the priority of the new node is dropped.
lib_insert(self, node) ==
    IF node.key = self.key THEN
        [self EXCEPT !.value = node.value]
    ELSE IF node.key < self.key THEN
        LET s1 == [self EXCEPT !.left = lib_insert_or_replace(self.left, node)]
        IN IF is_heap_property_violated(s1, s1.left) THEN right_rotate(s1) ELSE s1
    ELSE
        LET s1 == [self EXCEPT !.right = lib_insert_or_replace(self.right, node)]
        IN IF is_heap_property_violated(s1, s1.right) THEN left_rotate(s1) ELSE s1

\* lib.rs Node::insert_or_replace: the slot afterwards
lib_insert_or_replace(subtree, new) ==
    IF subtree = None THEN Some(new)
    ELSE Some(lib_insert(subtree[1], new))

\* Treap::find: the loop walks down from the root
RECURSIVE find(_, _)
find(node, key) ==
    IF node = None THEN None
    ELSE IF key = node[1].key THEN Some(node[1].value)
    ELSE IF key < node[1].key THEN find(node[1].left, key)
    ELSE find(node[1].right, key)

\* Treap::insert; priority: rand::random(). A Treap has no size field.
LibInsert(k, v, p) ==
    /\ call = NoCall
    /\ it_kind = "none"
    /\ root' = lib_insert_or_replace(root, NewNode(k, v, p))
    /\ ret' = None
    /\ call' = Call("lib_insert", k, v, p)
    /\ old_root' = root
    /\ old_size' = size
    /\ members' = members \cup {k}
    /\ UNCHANGED <<size, panicked>>
    /\ UNCHANGED itVars
    /\ UNCHANGED stepVars

\* Treap::find
LibFind(k) ==
    /\ call = NoCall
    /\ it_kind = "none"
    /\ ret' = find(root, k)
    /\ call' = Call("lib_find", k, 0, 0)
    /\ old_root' = root
    /\ old_size' = size
    /\ UNCHANGED <<root, size, members, panicked>>
    /\ UNCHANGED itVars
    /\ UNCHANGED stepVars

\* A program that uses the Treap of lib.rs; Treap::new is Init.
NextLib ==
    \/ Settle
    \/ \E k \in Keys, v \in Values, p \in Priorities : LibInsert(k, v, p)
    \/ \E k \in Keys : LibFind(k)

SpecLib == Init /\ [][NextLib]_vars

\* ------------------------------------------------------------- set.rs
\* the value of every entry of the map inside a TreapSet: ()
Unit == 0

\* Option::is_none and Option::is_some
is_none(o) == o = None
is_some(o) == o # None

\* TreapSet::insert: self.map.insert(item, ()).is_none()
SetInsert(x, p) ==
    /\ call = NoCall
    /\ it_kind = "none"
    /\ LET res == insert_or_replace(root, NewNode(x, Unit, p)) IN
        /\ root' = res.t
        /\ size' = SizeAfterInsert(size, res.r)
        /\ ret' = is_none(res.r)
    /\ call' = Call("set_insert", x, Unit, p)
    /\ old_root' = root
    /\ old_size' = size
    /\ members' = members \cup {x}
    /\ UNCHANGED panicked
    /\ UNCHANGED itVars
    /\ UNCHANGED stepVars

\* TreapSet::remove: self.map.remove(item).is_some()
SetRemove(x) ==
    /\ call = NoCall
    /\ it_kind = "none"
    /\ LET res == remove(root, x) IN
        /\ root' = res.t
        /\ size' = SizeAfterRemove(size, res.r)
        /\ ret' = is_some(res.r)
    /\ call' = Call("set_remove", x, 0, 0)
    /\ old_root' = root
    /\ old_size' = size
    /\ members' = members \ {x}
    /\ UNCHANGED panicked
    /\ UNCHANGED itVars
    /\ UNCHANGED stepVars

\* TreapSet::contains: self.map.get(item).is_some()
SetContains(x) ==
    /\ call = NoCall
    /\ it_kind = "none"
    /\ ret' = is_some(get(root, x))
    /\ call' = Call("set_contains", x, 0, 0)
    /\ old_root' = root
    /\ old_size' = size
    /\ UNCHANGED <<root, size, members, panicked>>
    /\ UNCHANGED itVars
    /\ UNCHANGED stepVars

\* TreapSet::len: self.map.len(), which is self.size
SetLen ==
    /\ call = NoCall
    /\ it_kind = "none"
    /\ ret' = size
    /\ call' = Call("set_len", 0, 0, 0)
    /\ old_root' = root
    /\ old_size' = size
    /\ UNCHANGED <<root, size, members, panicked>>
    /\ UNCHANGED itVars
    /\ UNCHANGED stepVars

\* TreapSet::is_empty: self.map.is_empty(), which is self.size == 0
SetIsEmpty ==
    /\ call = NoCall
    /\ it_kind = "none"
    /\ ret' = (size = 0)
    /\ call' = Call("set_is_empty", 0, 0, 0)
    /\ old_root' = root
    /\ old_size' = size
    /\ UNCHANGED <<root, size, members, panicked>>
    /\ UNCHANGED itVars
    /\ UNCHANGED stepVars

\* TreapSet::clean: self.map.clear()
SetClean ==
    /\ call = NoCall
    /\ it_kind = "none"
    /\ root' = None
    /\ size' = 0
    /\ ret' = None
    /\ call' = Call("set_clean", 0, 0, 0)
    /\ old_root' = root
    /\ old_size' = size
    /\ members' = {}
    /\ UNCHANGED panicked
    /\ UNCHANGED itVars
    /\ UNCHANGED stepVars

\* A program that uses a TreapSet; TreapSet::new is Init.
NextSet ==
    \/ Settle
    \/ \E x \in Keys, p \in Priorities : SetInsert(x, p)
    \/ \E x \in Keys : SetRemove(x)
    \/ \E x \in Keys : SetContains(x)
    \/ SetLen
    \/ SetIsEmpty
    \/ SetClean

SpecSet == Init /\ [][NextSet]_vars

\* TreapMap::contains_key: self.get(key).is_some()
ContainsKey(k) ==
    /\ call = NoCall
    /\ it_kind = "none"
    /\ ret' = is_some(get(root, k))
    /\ call' = Call("contains_key", k, 0, 0)
    /\ old_root' = root
    /\ old_size' = size
    /\ UNCHANGED <<root, size, members, panicked>>
    /\ UNCHANGED itVars
    /\ UNCHANGED stepVars

\* A program that builds maps by insert and then only reads them: get,
\* contains_key, iter() and iter_ordered(), each iterator advanced any
\* number of times before it is dropped.
NextRead ==
    \/ Settle
    \/ \E k \in Keys, v \in Values, p \in Priorities : Insert(k, v, p)
    \/ \E k \in Keys : Get(k)
    \/ \E k \in Keys : ContainsKey(k)
    \/ \E kind \in {"iter", "ordered"} : IterStart(kind)
    \/ UnorderedNext
    \/ OrderedIterNext
    \/ IterDrop

SpecRead == Init /\ [][NextRead]_vars

\* A program that only makes the calls that take a key and can change or
\* end on the map: insert, remove and indexed access.
NextKeyed ==
    \/ Settle
    \/ \E k \in Keys, v \in Values, p \in Priorities : Insert(k, v, p)
    \/ \E k \in Keys : Remove(k)
    \/ \E k \in Keys : Index(k)
    \/ \E k \in Keys : IndexMut(k)

SpecKeyed == Init /\ [][NextKeyed]_vars

\* ------------------------------------------------- reading a tree
\* the number of nodes reachable from a slot
RECURSIVE NodeCount(_)
NodeCount(t) ==
    IF t = None THEN 0
    ELSE 1 + NodeCount(t[1].left) + NodeCount(t[1].right)

\* the keys held by the nodes reachable from a slot
RECURSIVE KeysOf(_)
KeysOf(t) ==
    IF t = None THEN {}
    ELSE {t[1].key} \cup KeysOf(t[1].left) \cup KeysOf(t[1].right)

\* the <<key, value>> pairs held by the nodes reachable from a slot
RECURSIVE PairsOf(_)
PairsOf(t) ==
    IF t = None THEN {}
    ELSE {<<t[1].key, t[1].value>>} \cup PairsOf(t[1].left) \cup PairsOf(t[1].right)

\* at every node reachable from t, the keys on the left are smaller and
\* the keys on the right are greater than the node's key
RECURSIVE IsBST(_)
IsBST(t) ==
    \/ t = None
    \/ /\ \A k \in KeysOf(t[1].left) : k < t[1].key
       /\ \A k \in KeysOf(t[1].right) : k > t[1].key
       /\ IsBST(t[1].left)
       /\ IsBST(t[1].right)

\* at every node reachable from t, no present child has a greater priority
RECURSIVE IsHeap(_)
IsHeap(t) ==
    \/ t = None
    \/ /\ t[1].left # None => t[1].priority >= t[1].left[1].priority
       /\ t[1].right # None => t[1].priority >= t[1].right[1].priority
       /\ IsHeap(t[1].left)
       /\ IsHeap(t[1].right)

HasBothChildren(t) == t # None /\ t[1].left # None /\ t[1].right # None

\* the live iterator has nothing left to yield
Exhausted == it_kind # "none" /\ it_nodes = <<>>

\* -------------------------------------------------------------- claims
\* C1: in every state reached by insert, remove and clear from new(), every
\* node's left subtree holds only smaller keys and its right subtree only
\* greater keys, and no key is held by two nodes.
C1_BstInvariant ==
    /\ IsBST(root)
    /\ NodeCount(root) = Cardinality(KeysOf(root))

\* C1 witness: remove has rotated down and detached a node that had two
\* children.
C1_Witness ==
    /\ call.op = "remove"
    /\ ret # None
    /\ HasBothChildren(old_root)
    /\ old_root[1].key = call.key
    /\ NodeCount(root) = 2

\* C2: after every public call, no reachable node has a child of greater
\* priority.
C2_HeapInvariant == IsHeap(root)

\* C2 witness: an insert of a present key has raised that node's priority
\* above its parent's, and the node is now the root.
C2_Witness ==
    /\ call.op = "insert"
    /\ ret # None
    /\ old_root[1].key # call.key
    /\ root[1].key = call.key
    /\ root[1].priority = call.priority

\* C3: the size counter is the number of reachable nodes; an iterator run
\* to exhaustion has yielded as many items as the map it was built from
\* had in its counter; an insert of a present key leaves the counter as it
\* was; the counter is 0 exactly when there is no root.
C3_SizeInvariant ==
    /\ size = NodeCount(root)
    /\ size = Cardinality(KeysOf(root))
    /\ Exhausted => Len(it_out) = old_size
    /\ (call.op = "insert" /\ call.key \in KeysOf(old_root)) => size = old_size
    /\ (size = 0) <=> (root = None)

\* C3 witness: an insert of a present key into a map of two keys has returned.
C3_Witness ==
    /\ call.op = "insert"
    /\ call.key \in KeysOf(old_root)
    /\ size = 2

\* the <<key, value, priority>> triples held by the nodes reachable from a slot
RECURSIVE EntriesOf(_)
EntriesOf(t) ==
    IF t = None THEN {}
    ELSE {<<t[1].key, t[1].value, t[1].priority>>}
         \cup EntriesOf(t[1].left) \cup EntriesOf(t[1].right)

\* the parent/child structure of a tree: which key sits where
RECURSIVE Shape(_)
Shape(t) ==
    IF t = None THEN None
    ELSE Some([key |-> t[1].key, left |-> Shape(t[1].left), right |-> Shape(t[1].right)])

\* the node whose child slot holds `key` (None: key is at the top of t, or absent)
RECURSIVE ParentOf(_, _)
ParentOf(t, key) ==
    IF t = None \/ t[1].key = key THEN None
    ELSE LET child == IF key < t[1].key THEN t[1].left ELSE t[1].right IN
         IF child = None THEN None
         ELSE IF child[1].key = key THEN Some(t[1])
         ELSE ParentOf(child, key)

\* C4: insert(k, v) returns None exactly when no node held k at entry, and
\* otherwise Some(the value the node of k held at entry); get(k) is Some(v)
\* right after it, and stays what it is across every call that neither
\* inserts nor removes k (an insert or remove of another key, a get, a
\* borrowed iteration).
C4_InsertReturnsOldGetYieldsNew ==
    /\ call.op = "insert" =>
        /\ (ret = None) <=> (call.key \notin KeysOf(old_root))
        /\ ret # None => <<call.key, ret[1]>> \in PairsOf(old_root)
        /\ get(root, call.key) = Some(call.value)
    /\ call.op \in {"insert", "remove"} =>
        \A k \in Keys \ {call.key} : get(root, k) = get(old_root, k)
    /\ (call.op \in {"get", "iter", "iter_mut", "ordered"}
            \/ (call.op = "next" /\ it_kind # "into_iter")) =>
        \A k \in Keys : get(root, k) = get(old_root, k)

\* C4 witness: an insert of a present key has returned its old value, stored
\* a different one, and rotated the node up to the root.
C4_Witness ==
    /\ call.op = "insert"
    /\ ret # None
    /\ ret[1] # call.value
    /\ old_root[1].key # call.key
    /\ root[1].key = call.key

\* C5: remove(k) returns Some(the value the node of k held) when a node held
\* k and None when none did; after it get(k) is None and another remove(k)
\* returns None.
C5_RemoveReturnsValueThenAbsent ==
    call.op = "remove" =>
        /\ call.key \in KeysOf(old_root) =>
            (ret # None /\ <<call.key, ret[1]>> \in PairsOf(old_root))
        /\ call.key \notin KeysOf(old_root) => ret = None
        /\ get(root, call.key) = None
        /\ call.key \notin KeysOf(root)
        /\ remove(root, call.key).r = None

\* C5 witness: remove has returned the value of a node below the root of a
\* three-node tree.
C5_Witness ==
    /\ call.op = "remove"
    /\ ret # None
    /\ NodeCount(old_root) = 3
    /\ old_root[1].key # call.key

\* C9: remove(k) of a key no node holds returns None and leaves root and
\* size as they were; size goes down by one exactly when a node held k, and
\* is otherwise unchanged.
C9_RemoveAbsentChangesNothing ==
    call.op = "remove" =>
        /\ call.key \notin KeysOf(old_root) =>
            (ret = None /\ root = old_root /\ size = old_size)
        /\ call.key \in KeysOf(old_root) =>
            (ret # None /\ size = old_size - 1)

\* C9 witness: remove of an absent key has returned None on a map of two keys.
C9_Witness ==
    /\ call.op = "remove"
    /\ ret = None
    /\ call.key \notin KeysOf(old_root)
    /\ NodeCount(old_root) = 2
    /\ root = old_root

\* the case of C10: insert has returned from a call with a key that was present
InsertOfPresentKey == call.op = "insert" /\ call.key \in KeysOf(old_root)

\* C10 as stated: an insert of a present key performs no rotation, so the
\* parent/child structure is the same before and after the call.
C10_NoRotationOnPresentKey ==
    InsertOfPresentKey =>
        /\ NodeCount(root) = NodeCount(old_root)
        /\ KeysOf(root) = KeysOf(old_root)
        /\ Shape(root) = Shape(old_root)

\* C10 amended: an insert of a present key creates and destroys no node and
\* leaves every other node's value and priority alone; the parent/child
\* structure is unchanged exactly when the node has no parent or the sampled
\* priority does not exceed its parent's priority; otherwise the ancestors
\* rotate the node up as the recursion unwinds.
C10_PresentKeyRotatesOnlyAboveParent ==
    InsertOfPresentKey =>
        LET parent == ParentOf(old_root, call.key) IN
        /\ NodeCount(root) = NodeCount(old_root)
        /\ KeysOf(root) = KeysOf(old_root)
        /\ {e \in EntriesOf(root) : e[1] # call.key}
              = {e \in EntriesOf(old_root) : e[1] # call.key}
        /\ (Shape(root) = Shape(old_root))
              <=> (parent = None \/ call.priority <= parent[1].priority)

\* C10 witness: an insert of a present key has returned and the node is not
\* where it was: its sampled priority exceeded its parent's.
C10_Witness ==
    /\ InsertOfPresentKey
    /\ ParentOf(old_root, call.key) # None
    /\ call.priority > ParentOf(old_root, call.key)[1].priority
    /\ Shape(root) # Shape(old_root)

\* ------------------------------------------------------- iteration
\* the <<key, value>> pairs of a tree as a recursive in-order walk lists them
RECURSIVE InOrder(_)
InOrder(t) ==
    IF t = None THEN <<>>
    ELSE InOrder(t[1].left) \o <<(<<t[1].key, t[1].value>>)>> \o InOrder(t[1].right)

\* everything an OrderedIter with the stack `nodes` yields until next() is None
RECURSIVE OrderedYields(_)
OrderedYields(nodes) ==
    LET res == OrderedNext(nodes) IN
    IF res.r = None THEN <<>>
    ELSE <<res.r[1]>> \o OrderedYields(res.nodes)

ItemsOf(seq) == {seq[i] : i \in 1..Len(seq)}

IsPrefixOf(a, b) == Len(a) <= Len(b) /\ a = SubSeq(b, 1, Len(a))

\* C6: what iter_ordered() has yielded is at every moment a prefix of the
\* recursive in-order walk of the map, in strictly increasing key order;
\* once exhausted it is the whole walk: every key once, with its value.
C6_OrderedIterIsInOrderWalk ==
    it_kind = "ordered" =>
        /\ IsPrefixOf(it_out, InOrder(root))
        /\ \A i, j \in 1..Len(it_out) : i < j => it_out[i][1] < it_out[j][1]
        /\ Exhausted =>
            /\ it_out = InOrder(root)
            /\ ItemsOf(it_out) = PairsOf(root)
            /\ Len(it_out) = Cardinality(KeysOf(root))

\* C6 witness: iter_ordered() has been run to exhaustion on a three-node
\* tree whose root has a left child with a right child.
C6_Witness ==
    /\ it_kind = "ordered"
    /\ Exhausted
    /\ Len(it_out) = 3
    /\ root[1].left # None
    /\ root[1].left[1].right # None

\* C7: an unordered iterator never yields the same node twice and yields
\* only pairs of the tree it was built from; once exhausted it has yielded
\* one item per node, and the set of its items is the set of items that
\* iter_ordered() yields on the same tree.
C7_UnorderedIterVisitsEachNodeOnce ==
    it_kind \in {"iter", "iter_mut", "into_iter"} =>
        /\ \A i, j \in 1..Len(it_out) : i < j => it_out[i][1] # it_out[j][1]
        /\ ItemsOf(it_out) \subseteq PairsOf(it_src)
        /\ Exhausted =>
            /\ Len(it_out) = NodeCount(it_src)
            /\ ItemsOf(it_out) = ItemsOf(OrderedYields(SeedOrdered(it_src)))

\* C7 witness: a mutable iterator has been run to exhaustion on a tree whose
\* root has two children.
C7_Witness ==
    /\ it_kind = "iter_mut"
    /\ Exhausted
    /\ HasBothChildren(it_src)
    /\ Len(it_out) = 3

\* --------------------------------------------------- Cartesian tree
\* the Cartesian tree of a set of <<key, value, priority>> triples: its root
\* is the triple of highest priority (the smallest key among equals), its
\* subtrees are the Cartesian trees of the smaller and of the greater keys
RECURSIVE Cartesian(_)
Cartesian(S) ==
    IF S = {} THEN None
    ELSE LET top == CHOOSE e \in S :
                        \A f \in S : f[3] < e[3] \/ (f[3] = e[3] /\ f[1] >= e[1])
         IN Some([key |-> top[1], value |-> top[2], priority |-> top[3],
                  left |-> Cartesian({e \in S : e[1] < top[1]}),
                  right |-> Cartesian({e \in S : e[1] > top[1]})])

\* the tree that inserting the triples of S in ascending key order builds
RECURSIVE BuildAscending(_)
BuildAscending(S) ==
    IF S = {} THEN None
    ELSE LET last == CHOOSE e \in S : \A f \in S : f[1] <= e[1]
         IN insert_or_replace(BuildAscending(S \ {last}),
                              NewNode(last[1], last[2], last[3])).t

\* no two nodes of t have the same priority
DistinctPriorities(t) ==
    Cardinality({e[3] : e \in EntriesOf(t)}) = NodeCount(t)

\* C8 as stated: whatever the order in which distinct keys were inserted,
\* the tree is the one that inserting the same pairs in ascending key order
\* builds.
C8_InsertionOrderIndependent ==
    root = BuildAscending(EntriesOf(root))

\* C8 amended: when the priorities of the inserted pairs are pairwise
\* distinct, the tree built by inserting them in any order is the one that
\* ascending order builds, and it is the Cartesian tree of the pairs.
C8_DistinctPrioritiesGiveCartesianTree ==
    DistinctPriorities(root) =>
        /\ root = BuildAscending(EntriesOf(root))
        /\ root = Cartesian(EntriesOf(root))

\* C8 witness: the third of three pairs with distinct priorities has been
\* inserted last, between the other two keys, and has been rotated up to
\* the root.
C8_Witness ==
    /\ call.op = "insert"
    /\ NodeCount(root) = 3
    /\ DistinctPriorities(root)
    /\ HasBothChildren(root)
    /\ root[1].key = call.key

\* ------------------------------------------------------ indexed access
\* C11: map[&k] (and &mut map[&k]) refers to the value get(k) returns when a
\* node holds k; when none does it panics with "no entry found for key",
\* returns nothing, and root and size are what they were at entry.
C11_IndexIsGetOrPanics ==
    call.op \in {"index", "index_mut"} =>
        /\ call.key \in KeysOf(old_root) =>
            /\ panicked = ""
            /\ ret # None
            /\ ret = get(old_root, call.key)
            /\ <<call.key, ret[1]>> \in PairsOf(old_root)
        /\ call.key \notin KeysOf(old_root) =>
            /\ panicked = NoEntry
            /\ ret = None
        /\ root = old_root
        /\ size = old_size

\* C11 witness: indexed access with a key that is not in a map of two keys
\* has panicked.
C11_Witness ==
    /\ call.op = "index"
    /\ call.key \notin KeysOf(old_root)
    /\ NodeCount(old_root) = 2
    /\ panicked = NoEntry

\* ------------------------------------------------------------ TreapSet
\* C12: every call on a TreapSet answers as the mathematical set `members`
\* does: insert(x) returns true exactly when x was not a member before the
\* call, remove(x) returns true exactly when x was one, contains(x) is true
\* exactly when x is a member (inserted and not removed since), len() is the
\* number of members and is_empty() says whether there is none; the keys of
\* the tree are the members after every call.
C12_SetStep ==
    /\ call'.op = "set_insert" => ret' = (call'.key \notin members)
    /\ call'.op = "set_remove" => ret' = (call'.key \in members)
    /\ call'.op = "set_contains" => ret' = (call'.key \in members')
    /\ call'.op = "set_len" => ret' = Cardinality(members')
    /\ call'.op = "set_is_empty" => ret' = (members' = {})
    /\ KeysOf(root') = members'
    /\ size' = Cardinality(members')

C12_SetBehavesAsMathematicalSet == [][C12_SetStep]_vars

\* C12 witness: insert of an item that is not in a set of two answers true
\* and the set has three members.
C12_Witness ==
    /\ call.op = "set_insert"
    /\ ret = TRUE
    /\ call.key \notin KeysOf(old_root)
    /\ Cardinality(members) = 3
    /\ size = 3

\* --------------------------------------------------------------- clear
\* C13: after clear() the map is as TreapMap::new made it: no root, len() 0,
\* is_empty() true, get(k) None for every key, and an insert of any key with
\* any value and priority, run on it, returns None and makes a map of one
\* entry, whether or not the key was in the map before the clear.
C13_ClearGivesFreshMap ==
    call.op = "clear" =>
        /\ root = None
        /\ len(size) = 0
        /\ is_empty(size)
        /\ \A k \in Keys : get(root, k) = None
        /\ \A k \in Keys, v \in Values, p \in Priorities :
              LET res == insert_or_replace(root, NewNode(k, v, p)) IN
              /\ res.r = None
              /\ res.t = Some(NewNode(k, v, p))
              /\ SizeAfterInsert(size, res.r) = 1

\* C13 witness: clear() was called on a map of three entries.
C13_Witness ==
    /\ call.op = "clear"
    /\ NodeCount(old_root) = 3
    /\ old_size = 3
    /\ root = None

\* ------------------------------------------------- iterators are finite
\* what the next call of next() on the live iterator returns, and the
\* work-list it leaves
NextOfLive ==
    IF it_kind = "ordered" THEN OrderedNext(it_nodes) ELSE IterNext(it_nodes)

\* C14: on a tree of n nodes an iterator of any of the four kinds yields at
\* most n items; while it has yielded fewer than n, the next call of next()
\* returns an item; once it has yielded n, next() returns None and leaves the
\* iterator as it is, so every later call returns None too; next() returns
\* None only then. One call of OrderedIter::next runs the body of its loop
\* at most n + 1 times.
C14_IteratorsAreFinite ==
    it_kind # "none" =>
        LET n == NodeCount(it_src) IN
        /\ Len(it_out) <= n
        /\ Len(it_out) < n =>
            /\ NextOfLive.r # None
            /\ ~Exhausted
        /\ Len(it_out) = n =>
            /\ Exhausted
            /\ NextOfLive.r = None
            /\ NextOfLive.nodes = it_nodes
        /\ (call.op = "next" /\ ret = None) => Len(it_out) = n
        /\ (call.op = "next" /\ ret # None) =>
            /\ Len(it_out) >= 1
            /\ it_out[Len(it_out)] = ret[1]
        /\ it_kind = "ordered" => OrderedLoopRuns(it_nodes) <= n + 1

\* C14 witness: next() of an ordered iterator over three nodes has returned
\* None after three items.
C14_Witness ==
    /\ it_kind = "ordered"
    /\ call.op = "next"
    /\ ret = None
    /\ Len(it_out) = 3
    /\ NodeCount(it_src) = 3

\* ------------------------------------------------- frame on other keys
\* the nodes reachable from a slot
RECURSIVE NodesOf(_)
NodesOf(t) ==
    IF t = None THEN {}
    ELSE {t[1]} \cup NodesOf(t[1].left) \cup NodesOf(t[1].right)

\* the <<key, value, priority>> triples of a tree for the keys other than key
OthersOf(t, key) == {e \in EntriesOf(t) : e[1] # key}

\* C15: insert(k, v) and remove(k) leave every other key as it was: the keys
\* other than k, each with its value and its priority, are the same before and
\* after the call. A rotation at any node of a map between two calls carries
\* every key with its own value and priority: the triples under the node are
\* the same before and after it, one per node.
C15_OtherKeysKeepValueAndPriority ==
    /\ call.op \in {"insert", "remove"} =>
          OthersOf(root, call.key) = OthersOf(old_root, call.key)
    /\ call = NoCall => \A n \in NodesOf(root) :
          /\ EntriesOf(Some(right_rotate(n))) = EntriesOf(Some(n))
          /\ EntriesOf(Some(left_rotate(n))) = EntriesOf(Some(n))
          /\ NodeCount(Some(right_rotate(n))) = NodeCount(Some(n))
          /\ NodeCount(Some(left_rotate(n))) = NodeCount(Some(n))

\* C15 witness: an insert has rotated its key to the root above two other
\* keys, which kept their values and priorities.
C15_Witness ==
    /\ call.op = "insert"
    /\ call.key \notin KeysOf(old_root)
    /\ NodeCount(old_root) = 2
    /\ root[1].key = call.key
    /\ OthersOf(root, call.key) = EntriesOf(old_root)

\* ------------------------------------------- priority on a present key
\* the priority stored with `key` in t (key is held by a node of t)
PriorityOf(t, key) == (CHOOSE e \in EntriesOf(t) : e[1] = key)[3]

Max(a, b) == IF a >= b THEN a ELSE b

\* C16: after an insert of a key that a node held at entry (TreapMap::insert
\* of map.rs over node.rs, Treap::insert of lib.rs), the priority stored with
\* the key is the greater of the priority it had and the priority sampled for
\* the call: never lower than before, and the same when the sample is not
\* greater.
C16_PriorityIsMaxOfOldAndSample ==
    (call.op \in {"insert", "lib_insert"} /\ call.key \in KeysOf(old_root)) =>
        /\ PriorityOf(root, call.key)
              = Max(PriorityOf(old_root, call.key), call.priority)
        /\ PriorityOf(root, call.key) >= PriorityOf(old_root, call.key)
        /\ ~(call.priority > PriorityOf(old_root, call.key)) =>
              PriorityOf(root, call.key) = PriorityOf(old_root, call.key)

\* ---------------------------------------------- remove, step by step
\* the number of turns from the top of t down to the node of key (-1: none)
RECURSIVE DepthOf(_, _)
DepthOf(t, key) ==
    IF t = None THEN -1
    ELSE IF t[1].key = key THEN 0
    ELSE LET d == DepthOf(IF key < t[1].key THEN t[1].left ELSE t[1].right, key)
         IN IF d < 0 THEN -1 ELSE d + 1

\* the heap invariant at one node: its priority is >= that of each present child
HeapAt(n) ==
    /\ n.left # None => n.priority >= n.left[1].priority
    /\ n.right # None => n.priority >= n.right[1].priority

\* the same on the edges of n whose child is not the node of key
HeapAtBut(n, key) ==
    /\ (n.left # None /\ n.left[1].key # key) => n.priority >= n.left[1].priority
    /\ (n.right # None /\ n.right[1].key # key) => n.priority >= n.right[1].priority

\* a rotation of rotate_down has just been made in a remove
RotatedDown == call.op = "remove" /\ step \in {"left_rotate", "right_rotate"}

\* the node remove looked at before its last step
TargetBefore == SubtreeAt(step_root, IF RotatedDown THEN Front(path) ELSE path)[1]

\* what holds of every step of remove whatever is said of the heap
RemoveStepsKeepTree ==
    /\ RotatedDown =>
        /\ DepthOf(root, call.key) = DepthOf(step_root, call.key) + 1
        /\ DepthOf(root, call.key) = Len(path)
        /\ SubtreeAt(root, path)[1].key = call.key
        /\ IsBST(root)
        /\ EntriesOf(root) = EntriesOf(step_root)
    /\ (call.op = "remove" /\ step = "detach") =>
        /\ TargetBefore.key = call.key
        /\ TargetBefore.left = None
        /\ TargetBefore.right = None
        /\ ret = Some(TargetBefore.value)
        /\ <<call.key, ret[1]>> \in PairsOf(old_root)
        /\ EntriesOf(root) = {e \in EntriesOf(old_root) : e[1] # call.key}
        /\ IsBST(root)
        /\ IsHeap(root)
    /\ (call.op = "remove" /\ pc = "idle") =>
        /\ root = remove(old_root, call.key).t
        /\ ret = remove(old_root, call.key).r

\* C17 as stated: after each rotation of rotate_down the target is one level
\* deeper, the whole tree is a search tree, and the heap invariant (a node's
\* priority is >= that of each present child) holds at every node other than
\* the target; the target is detached only when childless and remove returns
\* its value.
C17_HeapAtEveryNodeButTarget ==
    /\ RemoveStepsKeepTree
    /\ RotatedDown =>
          \A n \in NodesOf(root) : n.key # call.key => HeapAt(n)

\* C17, amended: after each rotation of rotate_down the target is one level
\* deeper, the whole tree is a search tree, and the heap invariant holds on
\* every parent/child edge whose child is not the target (the target itself
\* outranks its children); the edge from the child just brought up down to
\* the target is the one that may be violated. The target is detached only
\* when childless, remove returns its value, and the tree is then valid.
C17_HeapOnEveryEdgeButTargets ==
    /\ RemoveStepsKeepTree
    /\ RotatedDown =>
          /\ \A n \in NodesOf(root) : HeapAtBut(n, call.key)
          /\ \A n \in NodesOf(root) :
                (n.key # call.key /\ ~HeapAt(n)) =>
                    n = SubtreeAt(root, Front(path))[1]

\* C17 witness: the second rotation of a remove has been made, and the node
\* brought up has a lower priority than the target below it.
C17_Witness ==
    /\ RotatedDown
    /\ Len(path) = 2
    /\ ~HeapAt(SubtreeAt(root, Front(path))[1])
    /\ NodeCount(root) = 3

\* C18: a rotation of rotate_down brings up a child of the target whose
\* priority is not lower than the other child's; with both children present
\* and left.priority >= right.priority (equal included) it is the left child,
\* by a right rotation, otherwise the right child, by a left rotation; an only
\* child is the one brought up.
C18_RotateDownBringsUpHigherChild ==
    RotatedDown =>
        LET t  == TargetBefore
            up == SubtreeAt(root, Front(path))[1]
        IN
        /\ t.key = call.key
        /\ t.left # None \/ t.right # None
        /\ (t.left # None /\ t.right # None) =>
            /\ t.left[1].priority >= t.right[1].priority =>
                  (up.key = t.left[1].key /\ step = "right_rotate")
            /\ t.left[1].priority < t.right[1].priority =>
                  (up.key = t.right[1].key /\ step = "left_rotate")
        /\ (t.left # None /\ t.right = None) =>
              (up.key = t.left[1].key /\ step = "right_rotate")
        /\ (t.left = None /\ t.right # None) =>
              (up.key = t.right[1].key /\ step = "left_rotate")
        /\ t.left # None => up.priority >= t.left[1].priority
        /\ t.right # None => up.priority >= t.right[1].priority
        /\ step = "right_rotate" => (up.right # None /\ up.right[1].key = call.key)
        /\ step = "left_rotate" => (up.left # None /\ up.left[1].key = call.key)

\* C18 witness: the target had two children of equal priority and the left
\* one has been brought up.
C18_Witness ==
    /\ RotatedDown
    /\ TargetBefore.left # None
    /\ TargetBefore.right # None
    /\ TargetBefore.left[1].priority = TargetBefore.right[1].priority
    /\ step = "right_rotate"
    /\ root[1].key = TargetBefore.left[1].key

\* ---------------------------------------------- insert, step by step
\* the parent/child edges of t on which the child outranks the parent, as
\* <<key of the parent, key of the child>>
ViolatedEdges(t) ==
    {<<n.key, n.left[1].key>> : n \in {m \in NodesOf(t) :
          m.left # None /\ m.priority < m.left[1].priority}}
    \cup
    {<<n.key, n.right[1].key>> : n \in {m \in NodesOf(t) :
          m.right # None /\ m.priority < m.right[1].priority}}

\* the return into a Node::insert frame has just been made
Unwound == call.op = "insert" /\ step \in {"left_rotate", "right_rotate", "no_rotate"}

\* C19: while insert runs, the child outranks the parent on at most one edge
\* of the tree, the edge between the node of the inserted key and its parent,
\* and only while the frame of that parent has not yet been returned into.
\* Each frame returned into rotates exactly when that edge is violated, once:
\* to the right when the node is its left child, to the left when it is its
\* right child; the rotation puts the node in the frame's slot, and the
\* subtree of that slot then satisfies both invariants. When insert has
\* returned the whole tree does.
C19_InsertBubblesUpOneEdgeAtATime ==
    call.op = "insert" =>
        /\ IsBST(root)
        /\ Cardinality(ViolatedEdges(root)) <= 1
        /\ \A e \in ViolatedEdges(root) :
              /\ e[2] = call.key
              /\ pc = "return"
              /\ path # <<>>
              /\ SubtreeAt(root, path)[1].key = call.key
              /\ SubtreeAt(root, Front(path))[1].key = e[1]
        /\ pc = "return" =>
              /\ call.key \in KeysOf(SubtreeAt(root, path))
              /\ step # "no_rotate" => SubtreeAt(root, path)[1].key = call.key
              /\ IsBST(SubtreeAt(root, path))
              /\ IsHeap(SubtreeAt(root, path))
        /\ Unwound =>
              LET self == SubtreeAt(step_root, path)[1] IN
              /\ step = "right_rotate" =>
                    /\ self.left # None
                    /\ self.left[1].key = call.key
                    /\ self.priority < self.left[1].priority
                    /\ root = ReplaceAt(step_root, path, Some(right_rotate(self)))
                    /\ SubtreeAt(root, path)[1].right[1].key = self.key
              /\ step = "left_rotate" =>
                    /\ self.right # None
                    /\ self.right[1].key = call.key
                    /\ self.priority < self.right[1].priority
                    /\ root = ReplaceAt(step_root, path, Some(left_rotate(self)))
                    /\ SubtreeAt(root, path)[1].left[1].key = self.key
              /\ step = "no_rotate" =>
                    /\ ViolatedEdges(step_root) = {}
                    /\ root = step_root
              /\ DepthOf(root, call.key) <= DepthOf(step_root, call.key)
              /\ DepthOf(step_root, call.key) - DepthOf(root, call.key) <= 1
        /\ pc = "idle" =>
              /\ ViolatedEdges(root) = {}
              /\ IsHeap(root)
              /\ LET res == insert_or_replace(old_root,
                                NewNode(call.key, call.value, call.priority))
                 IN root = res.t /\ ret = res.r

\* C19 witness: a key placed two levels down has been rotated up twice, by
\* the frame of its parent and then by the frame of the root.
C19_Witness ==
    /\ Unwound
    /\ step = "left_rotate"
    /\ path = <<>>
    /\ call.key \notin KeysOf(old_root)
    /\ old_root[1].left = None
    /\ old_root[1].right # None
    /\ call.key > old_root[1].right[1].key
    /\ root[1].key = call.key
    /\ Cardinality(ViolatedEdges(step_root)) = 1

\* ------------------------------------------------------ rotation shape
\*       q               p
\*      / \             / \
\*     p  C   --->     A  q
\*    / \                / \
\*   A  B               B  C
\* written out field by field; q itself when p is absent
RightRotated(q) ==
    IF q.left = None THEN q
    ELSE LET p == q.left[1] IN
         [key |-> p.key, value |-> p.value, priority |-> p.priority,
          left |-> p.left,
          right |-> Some([key |-> q.key, value |-> q.value, priority |-> q.priority,
                          left |-> p.right, right |-> q.right])]

\* the mirror image: p with right child q becomes q with left child p
LeftRotated(p) ==
    IF p.right = None THEN p
    ELSE LET q == p.right[1] IN
         [key |-> q.key, value |-> q.value, priority |-> q.priority,
          left |-> Some([key |-> p.key, value |-> p.value, priority |-> p.priority,
                         left |-> p.left, right |-> q.left]),
          right |-> q.right]

\* C20: right_rotate at a node q with left child p leaves p in q's place with
\* left subtree A and right child q, and q with left subtree B and right
\* subtree C; left_rotate is the mirror image; each keeps the in-order
\* sequence of the subtree and its set of nodes (key, value, priority), and
\* leaves the node as it is when the child it would bring up is absent. This
\* holds of a rotation at every node of every map between two calls, and of
\* the rotation that rotate_down has just made.
C20_RotationShape ==
    /\ call = NoCall => \A n \in NodesOf(root) :
        /\ right_rotate(n) = RightRotated(n)
        /\ left_rotate(n) = LeftRotated(n)
        /\ InOrder(Some(right_rotate(n))) = InOrder(Some(n))
        /\ InOrder(Some(left_rotate(n))) = InOrder(Some(n))
        /\ EntriesOf(Some(right_rotate(n))) = EntriesOf(Some(n))
        /\ EntriesOf(Some(left_rotate(n))) = EntriesOf(Some(n))
        /\ NodeCount(Some(right_rotate(n))) = NodeCount(Some(n))
        /\ NodeCount(Some(left_rotate(n))) = NodeCount(Some(n))
        /\ n.left = None => right_rotate(n) = n
        /\ n.right = None => left_rotate(n) = n
    /\ RotatedDown =>
        /\ step = "right_rotate" =>
              SubtreeAt(root, Front(path))[1] = RightRotated(TargetBefore)
        /\ step = "left_rotate" =>
              SubtreeAt(root, Front(path))[1] = LeftRotated(TargetBefore)
        /\ InOrder(root) = InOrder(step_root)

\* C20 witness: rotate_down has made a right rotation at a node q whose left
\* child p and whose subtrees A, B and C were all present.
C20_Witness ==
    /\ RotatedDown
    /\ step = "right_rotate"
    /\ TargetBefore.left # None
    /\ TargetBefore.left[1].left # None
    /\ TargetBefore.left[1].right # None
    /\ TargetBefore.right # None
    /\ SubtreeAt(root, Front(path))[1] = RightRotated(TargetBefore)

\* ----------------------------------------------------------- termination
\* the number of nodes on the longest way down from a slot
RECURSIVE Height(_)
Height(t) ==
    IF t = None THEN 0
    ELSE LET l == Height(t[1].left)
             r == Height(t[1].right)
         IN 1 + (IF l >= r THEN l ELSE r)

\* the bounds that make insert and remove end
CallsAreBounded ==
    /\ (call.op = "insert" /\ pc = "insert_or_replace") =>
          /\ Len(path) <= Height(old_root)
          /\ root = old_root
    /\ (call.op = "insert" /\ step = "place") =>
          /\ SubtreeAt(step_root, path) = None
          /\ Len(path) <= Height(old_root)
    /\ (call.op = "insert" /\ step = "replace") =>
          /\ SubtreeAt(step_root, path)[1].key = call.key
          /\ Len(path) < Height(old_root)
    /\ (call.op = "insert" /\ pc = "return") => Len(path) <= Height(old_root)
    /\ (call.op = "remove" /\ pc = "remove") => Len(path) <= Height(old_root)
    /\ RotatedDown =>
          /\ NodeCount(SubtreeAt(root, path))
                < NodeCount(SubtreeAt(step_root, Front(path)))
          /\ Len(path) <= NodeCount(old_root) - 1
    /\ (call.op = "remove" /\ step = "detach") =>
          NodeCount(SubtreeAt(step_root, path)) = 1

\* C21: every insert and every remove that has been entered returns. The
\* descent of insert makes at most height-many steps and ends at an absent
\* slot or at the node of the key; each rotation of rotate_down leaves the
\* target with strictly fewer descendants, and the target is detached when it
\* has none.
C21_InsertAndRemoveTerminate ==
    /\ []CallsAreBounded
    /\ (pc # "idle") ~> (pc = "idle")

\* C21 witness: a remove that rotated its target down twice has returned.
C21_Witness ==
    /\ call.op = "remove"
    /\ pc = "idle"
    /\ step = "detach"
    /\ Len(path) = 2
    /\ NodeCount(old_root) = 3
    /\ old_root[1].key = call.key

\* ------------------------------------------------- reads change nothing
\* everything an Iter with the work-list `nodes` yields until next() is None
RECURSIVE UnorderedYields(_)
UnorderedYields(nodes) ==
    LET res == IterNext(nodes) IN
    IF res.r = None THEN <<>>
    ELSE <<res.r[1]>> \o UnorderedYields(res.nodes)

\* the step is a get, a contains_key, the making of an iter() or an
\* iter_ordered(), a next() of one, or the drop of one
ReadStep ==
    \/ call'.op \in {"get", "contains_key", "iter", "ordered", "next"}
    \/ (it_kind \in {"iter", "ordered"} /\ it_kind' = "none")

\* C22: a get, a contains_key, the making of iter() or iter_ordered(), each
\* next() on them and their drop after any number of next() calls leave the
\* tree (shape, keys, values, priorities) and the size as they were; an
\* iterator made on the map once the call has returned or the iterator is
\* dropped yields every entry: iter() each pair once, iter_ordered() the
\* in-order walk.
C22_ReadStepChangesNothing ==
    ReadStep =>
        /\ root' = root
        /\ size' = size
        /\ EntriesOf(root') = EntriesOf(root)
        /\ Shape(root') = Shape(root)
        /\ it_kind' = "none" =>
            /\ OrderedYields(SeedOrdered(root')) = InOrder(root)
            /\ ItemsOf(UnorderedYields(SeedNodes(root'))) = PairsOf(root)
            /\ Len(UnorderedYields(SeedNodes(root'))) = NodeCount(root)
        /\ call'.op = "contains_key" => ret' = (call'.key \in KeysOf(root))

C22_ReadsHaveNoEffect == [][C22_ReadStepChangesNothing]_vars

\* C22 witness: an iter() over a map of three entries has yielded two of
\* them, and the map is the one it was made from.
C22_Witness ==
    /\ it_kind = "iter"
    /\ call.op = "next"
    /\ Len(it_out) = 2
    /\ NodeCount(it_src) = 3
    /\ root = it_src
    /\ size = 3

\* ------------------------------------------------ history independence
\* C23: after any sequence of inserts of absent keys with pairwise distinct
\* priorities and of removes, the tree is the Cartesian tree of the pairs now
\* in the map; it is therefore the tree that any other sequence ending with
\* the same pairs builds, such as the inserts of those pairs alone in
\* ascending key order.
C23_TreeIsCartesianAfterRemovals ==
    /\ DistinctPriorities(root)
    /\ root = Cartesian(EntriesOf(root))
    /\ root = BuildAscending(EntriesOf(root))
    /\ call.op = "remove" =>
          EntriesOf(root) = {e \in EntriesOf(old_root) : e[1] # call.key}

\* C23 witness: the root of a three-node tree with two children has been
\* removed, and the two nodes left form the Cartesian tree of their pairs.
C23_Witness ==
    /\ call.op = "remove"
    /\ ret # None
    /\ HasBothChildren(old_root)
    /\ old_root[1].key = call.key
    /\ NodeCount(root) = 2
    /\ root = Cartesian(EntriesOf(root))

====
